---- MODULE Spec2Model ----
(***************************************************************************)
(* Neural Salvage service: the account store (src/src/auth.js), the quota  *)
(* policy and the HTTP handlers (server, src/unnamed/part_000), the        *)
(* archive gateway and listing (src/src/salvage.js), revival               *)
(* (src/src/revival.js), the billing gateway (src/src/payments.js) and the *)
(* validator (schema, src/unnamed/part_001).                               *)
(*                                                                         *)
(* A handler runs from its start to its first await on real I/O as one     *)
(* step (Node runs it on one thread, and the awaits on the synchronous     *)
(* account-store functions resume before any other request is served).     *)
(* The only await on real I/O in the write path is the Arweave             *)
(* createTransaction/sign/post sequence of salvageToArweave: a submission  *)
(* with a wallet configured is two steps, SalvageRequest and SalvagePosted,*)
(* and other requests run in between.                                      *)
(*                                                                         *)
(* The specifications share the actions: Spec (accounts, credentials and   *)
(* submission), BillingSpec (payments and tiers), QuotaSpec (the free      *)
(* quota as the days pass), ReadSpec (retrieval, revival and listing),     *)
(* StoreSpec (every writer of the account store), ValidatorSpec (the       *)
(* validator and the tier limits on every candidate soul),                 *)
(* ProjectionSpec (the files projection of every soul); RevivalSpec is     *)
(* ReadSpec within one day and without listing.                            *)
(***************************************************************************)
EXTENDS Integers, Sequences, FiniteSets, Bags, TLC

\* ---------------------------------------------------------------- bounds
MaxAccounts == 2        \* accounts ever created (uuidv4 ids 1..MaxAccounts)
MaxKeys == 3            \* credentials ever generated (ns_ tokens 1..MaxKeys)
MaxSalvages == 2        \* submissions admitted to the archive gateway and not failed
MaxSessions == 2        \* checkout sessions the processor ever creates
MaxYear == 2            \* the clock stops at the end of year MaxYear
MonthsPerYear == 2      \* calendar months 1..MonthsPerYear
DaysPerMonth == 2       \* calendar days 1..DaysPerMonth
EnvelopeOverhead == 100 \* serialized envelope length minus the soul's size
MaxLogs == 2            \* entries of a soul's memory.daily_logs
MaxFiles == 2           \* entries of a soul's files

\* ------------------------------------------------------ program constants
FreeMaxBytes == 1048576      \* free tier size ceiling, 1 MiB
HardCapBytes == 104857600    \* validator's absolute ceiling, 100 MiB

VARIABLES
  db,          \* data/accounts.json: account id -> account record
  now,         \* wall clock, [y, m, d]
  env,         \* process.env: wallet, stripe key, payment addresses
  nextKey,     \* number of credentials generated so far
  nextTx,      \* number of transactions accepted by the permanent store
  arweave,     \* permanent store: transaction id -> kind of payload
  inflight,    \* bag of submissions awaiting the permanent store
  sessions,    \* processor: correlation metadata of the checkouts created
  issuedKeys,  \* per account, the credentials returned to its owner, in order
  resp         \* the last step: the request served and the response sent
               \* (status 0 when the step sends none)

vars == <<db, now, env, nextKey, nextTx, arweave, inflight, sessions, issuedKeys, resp>>

\* ----------------------------------------------------------------- values
Null == [y |-> 0, m |-> 0, d |-> 0]          \* a null timestamp
NoAccount == [id |-> 0]                       \* authenticate's null
NoKey == -1                                   \* no Authorization header
BadKey == 0                                   \* a credential without the ns_ prefix
KeySpace == 0..MaxKeys
Names == {"neo", "Neo", "trinity"}

\* a candidate soul as the validator reads it: what typeof says of it, whether
\* it has an identity with a name, the secret patterns its serialized form
\* matches, and the byte length of its serialized form
Souls == [kind : {"object"}, identity : {"noname", "named"}, secrets : {{}},
          bytes : {FreeMaxBytes, FreeMaxBytes + 1}]

\* String.prototype.toLowerCase on the names used
toLowerCase(s) == IF s = "Neo" THEN "neo" ELSE s

\* String.prototype.toUpperCase on the currencies used
toUpperCase(s) == CASE s = "usd" -> "USD" [] s = "sol" -> "SOL" [] OTHER -> s

Min(S) == CHOOSE x \in S : \A y \in S : x <= y

\* -------------------------------------------------------------- auth.js
\* sha256 of the credential: one-way, collision-free on the credentials used
hashKey(key) == <<"sha256", key>>

\* 'ns_' + 32 random bytes: a credential never generated before
generateApiKey(n) == n + 1

\* authenticate(apiKey): the first account whose stored hash matches, or null
authenticate(d, apiKey) ==
  IF apiKey = NoKey \/ apiKey = BadKey THEN NoAccount
  ELSE LET hit == {id \in DOMAIN d : d[id].apiKeyHash = hashKey(apiKey)}
       IN IF hit = {} THEN NoAccount ELSE d[Min(hit)]

\* the duplicate-name test comparing the names as written
nameTakenExact(d, name) == \E id \in DOMAIN d : d[id].name = name

\* createAccount's duplicate-name test
nameTaken(d, name) == \E id \in DOMAIN d : toLowerCase(d[id].name) = toLowerCase(name)

\* createAccount writing the record it returns, credential included
createAccountKeepsKey(d, name, type, id, apiKey) ==
  IF nameTaken(d, name)
  THEN [err |-> "already exists", db |-> d, account |-> NoAccount]
  ELSE LET acct == [id |-> id, name |-> name, type |-> type, tier |-> "free",
                    apiKeyHash |-> hashKey(apiKey), salvageCount |-> 0,
                    totalBytes |-> 0, lastSalvage |-> Null, salvageTxIds |-> <<>>,
                    apiKey |-> apiKey]
       IN [err |-> "", db |-> d @@ (id :> acct), account |-> acct]

\* createAccount({name, type}): [err, db, account]; id and apiKey are the fresh
\* uuid and credential
createAccount(d, name, type, id, apiKey) ==
  IF nameTaken(d, name)
  THEN [err |-> "already exists", db |-> d, account |-> NoAccount]
  ELSE LET acct == [id |-> id, name |-> name, type |-> type, tier |-> "free",
                    apiKeyHash |-> hashKey(apiKey), salvageCount |-> 0,
                    totalBytes |-> 0, lastSalvage |-> Null, salvageTxIds |-> <<>>]
       IN [err |-> "", db |-> d @@ (id :> acct), account |-> acct]

\* recordSalvage counting the submission without listing its identifier
recordSalvageUnlisted(d, accountId, txId, sizeBytes, t) ==
  IF accountId \notin DOMAIN d THEN [err |-> "Account not found", db |-> d]
  ELSE [err |-> "",
        db |-> [d EXCEPT ![accountId] =
                  [@ EXCEPT !.salvageCount = @ + 1,
                            !.totalBytes = @ + sizeBytes,
                            !.lastSalvage = t]]]

\* recordSalvage returning without writing the store
recordSalvageUnwritten(d, accountId, txId, sizeBytes, t) ==
  IF accountId \notin DOMAIN d THEN [err |-> "Account not found", db |-> d]
  ELSE [err |-> "", db |-> d]

\* recordSalvage(accountId, txId, sizeBytes): [err, db]
recordSalvage(d, accountId, txId, sizeBytes, t) ==
  IF accountId \notin DOMAIN d THEN [err |-> "Account not found", db |-> d]
  ELSE [err |-> "",
        db |-> [d EXCEPT ![accountId] =
                  [@ EXCEPT !.salvageCount = @ + 1,
                            !.totalBytes = @ + sizeBytes,
                            !.lastSalvage = t,
                            !.salvageTxIds = Append(@, txId)]]]

\* upgradeTier(accountId, tier): [err, db]
upgradeTier(d, accountId, tier) ==
  IF accountId \notin DOMAIN d THEN [err |-> "Account not found", db |-> d]
  ELSE [err |-> "", db |-> [d EXCEPT ![accountId].tier = tier]]

\* rotateKey returning the new credential without writing its hash
rotateKeyUnwritten(d, accountId, newKey) ==
  IF accountId \notin DOMAIN d THEN [err |-> "Account not found", db |-> d, key |-> NoKey]
  ELSE [err |-> "", db |-> d, key |-> newKey]

\* rotateKey(accountId): [err, db, key]
rotateKey(d, accountId, newKey) ==
  IF accountId \notin DOMAIN d THEN [err |-> "Account not found", db |-> d, key |-> NoKey]
  ELSE [err |-> "", db |-> [d EXCEPT ![accountId].apiKeyHash = hashKey(newKey)], key |-> newKey]

\* ------------------------------------------------- schema (part_001)
\* FORBIDDEN_PATTERNS, in list order
FORBIDDEN_PATTERNS ==
  <<"sk-", "sk-ant-", "sk-or-", "ghp_", "gho_", "xai-", "AIzaSy", "PRIVATE KEY", "password">>

\* the reasons validateSoulPayload gives, word by word
MsgNotObject == <<"Soul", "must", "be", "a", "JSON", "object">>
MsgNoIdentity == <<"Soul", "must", "include", "an", "\"identity\"", "object", "(at",
                   "minimum", "{", "name:", "\"...\"", "})">>
MsgNoName == <<"identity.name", "is", "required">>
MsgSecret == <<"BLOCKED:", "Payload", "contains", "what", "looks", "like", "a",
               "secret/credential.">>
MsgTooLarge == <<"Payload", "too", "large:", "(max", "100MB)">>

\* the secret scan pushing a warning for every pattern that matches
RECURSIVE scanSecretsEveryMatch(_, _)
scanSecretsEveryMatch(patterns, matched) ==
  IF patterns = <<>> THEN <<>>
  ELSE IF Head(patterns) \in matched
       THEN <<MsgSecret>> \o scanSecretsEveryMatch(Tail(patterns), matched)
       ELSE scanSecretsEveryMatch(Tail(patterns), matched)

\* for (const pattern of FORBIDDEN_PATTERNS): the warnings pushed, given the
\* patterns that pattern.test(serialized) answers true for
RECURSIVE scanSecrets(_, _)
scanSecrets(patterns, matched) ==
  IF patterns = <<>> THEN <<>>
  ELSE IF Head(patterns) \in matched THEN <<MsgSecret>>
       ELSE scanSecrets(Tail(patterns), matched)

\* validateSoulPayload without the size check
validateSoulPayloadNoCap(soul) ==
  IF soul.kind # "object"
  THEN [valid |-> FALSE, errors |-> <<MsgNotObject>>, size_bytes |-> 0]
  ELSE LET errors == (IF soul.identity = "absent" THEN <<MsgNoIdentity>>
                      ELSE IF soul.identity = "noname" THEN <<MsgNoName>> ELSE <<>>)
                     \o scanSecrets(FORBIDDEN_PATTERNS, soul.secrets)
       IN [valid |-> errors = <<>>, errors |-> errors, size_bytes |-> soul.bytes]

\* validateSoulPayload(soul): [valid, errors, size_bytes]
validateSoulPayload(soul) ==
  IF soul.kind # "object"
  THEN [valid |-> FALSE, errors |-> <<MsgNotObject>>, size_bytes |-> 0]
  ELSE LET errors == (IF soul.identity = "absent" THEN <<MsgNoIdentity>>
                      ELSE IF soul.identity = "noname" THEN <<MsgNoName>> ELSE <<>>)
                     \o scanSecrets(FORBIDDEN_PATTERNS, soul.secrets)
                     \o (IF soul.bytes > HardCapBytes THEN <<MsgTooLarge>> ELSE <<>>)
       IN [valid |-> errors = <<>>, errors |-> errors, size_bytes |-> soul.bytes]

\* ------------------------------------------------- server (part_000)
\* isNewMonth comparing the month alone
isNewMonthMonthOnly(lastDate, t) ==
  IF lastDate = Null THEN TRUE
  ELSE lastDate.m # t.m

\* isNewMonth(lastDate) at wall-clock time t
isNewMonth(lastDate, t) ==
  IF lastDate = Null THEN TRUE
  ELSE lastDate.m # t.m \/ lastDate.y # t.y

\* the tier limits applied to every tier
tierLimitEveryTier(account, payloadSize, t) ==
  IF account.salvageCount >= 1 /\ ~(account.lastSalvage = Null
       \/ account.lastSalvage.m # t.m \/ account.lastSalvage.y # t.y) THEN 429
  ELSE IF payloadSize > FreeMaxBytes THEN 413
  ELSE 0

\* the tier limits with the size test ahead of the month test
tierLimitSizeFirst(account, payloadSize, t) ==
  IF account.tier = "free"
  THEN IF payloadSize > FreeMaxBytes THEN 413
       ELSE IF account.salvageCount >= 1 /\ ~(account.lastSalvage = Null
                 \/ account.lastSalvage.m # t.m \/ account.lastSalvage.y # t.y) THEN 429
       ELSE 0
  ELSE 0

\* the tier limits of POST /api/v1/salvage: the status of the rejection, 0 to admit
tierLimit(account, payloadSize, t) ==
  IF account.tier = "free"
  THEN IF account.salvageCount >= 1 /\ ~isNewMonth(account.lastSalvage, t) THEN 429
       ELSE IF payloadSize > FreeMaxBytes THEN 413
       ELSE 0
  ELSE 0

\* the salvage route checking the tier limits before the document
salvageGateQuotaFirst(account, soul, t) ==
  IF tierLimit(account, soul.bytes, t) # 0 THEN tierLimit(account, soul.bytes, t)
  ELSE IF ~validateSoulPayload(soul).valid THEN 400
  ELSE 0

\* POST /api/v1/salvage before the archive gateway: the status of the
\* rejection (400 from the validator, else the tier limits'), 0 to admit
salvageGate(account, soul, t) ==
  IF ~validateSoulPayload(soul).valid THEN 400
  ELSE tierLimit(account, soul.bytes, t)

\* ------------------------------------------------------------ salvage.js
NoTx == <<"none">>                            \* no transaction id

\* txId.startsWith('demo-')
isDemoId(txId) == txId[1] = "demo"

\* demo-${Date.now()}-${account.id.slice(0, 8)}
demoTxId(t, accountId) == <<"demo", t, accountId>>

\* data.length, the length of the serialized envelope around a soul
dataLength(soul) == soul.bytes + EnvelopeOverhead

\* what the permanent store does with a submission: it accepts the envelope
\* (transactions.post answers 200), it cannot be reached (createTransaction or
\* transactions.post throws), signing throws, or post answers another status
StoreOutcomes == {"posted", "unreachable", "sign throws", "status not 200"}

\* salvageToArweave recording the submission before it looks at the store's answer
salvageToArweaveRecordFirst(d, walletJson, accountId, data, t, txId, outcome) ==
  IF ~walletJson
  THEN LET r == recordSalvage(d, accountId, demoTxId(t, accountId), data, t)
       IN [err |-> r.err, db |-> r.db, txId |-> demoTxId(t, accountId), status |-> "demo"]
  ELSE LET r == recordSalvage(d, accountId, txId, data, t)
       IN IF outcome # "posted" \/ r.err # ""
          THEN [err |-> "Arweave upload failed", db |-> r.db, txId |-> NoTx, status |-> ""]
          ELSE [err |-> "", db |-> r.db, txId |-> txId, status |-> "permanent"]

\* salvageToArweave({soul, account, metadata}): [err, db, txId, status]; data is
\* data.length, txId the id of the transaction created, outcome the store's answer
salvageToArweave(d, walletJson, accountId, data, t, txId, outcome) ==
  IF ~walletJson
  THEN LET r == recordSalvage(d, accountId, demoTxId(t, accountId), data, t)
       IN [err |-> r.err, db |-> r.db, txId |-> demoTxId(t, accountId), status |-> "demo"]
  ELSE IF outcome # "posted"
       THEN [err |-> "Arweave upload failed", db |-> d, txId |-> NoTx, status |-> ""]
       ELSE LET r == recordSalvage(d, accountId, txId, data, t)
            IN IF r.err # ""
               THEN [err |-> "Arweave upload failed", db |-> d, txId |-> NoTx, status |-> ""]
               ELSE [err |-> "", db |-> r.db, txId |-> txId, status |-> "permanent"]

\* Array.prototype.slice(start, end)
jsSlice(s, start, end) ==
  LET len == Len(s)
      from == IF start < 0 THEN (IF len + start < 0 THEN 0 ELSE len + start)
              ELSE (IF start > len THEN len ELSE start)
      to == IF end < 0 THEN (IF len + end < 0 THEN 0 ELSE len + end)
            ELSE (IF end > len THEN len ELSE end)
  IN IF from >= to THEN <<>> ELSE [i \in 1..(to - from) |-> s[from + i]]

\* Array.prototype.reverse
jsReverse(s) == [i \in 1..Len(s) |-> s[Len(s) + 1 - i]]

\* listSalvages(accountId, {limit, offset}): [err, salvages, total, limit, offset]
listSalvages(d, accountId, limit, offset) ==
  IF accountId \notin DOMAIN d
  THEN [err |-> "Account not found", salvages |-> <<>>, total |-> 0,
        limit |-> limit, offset |-> offset]
  ELSE LET txIds == d[accountId].salvageTxIds
           page == jsReverse(jsSlice(txIds, offset, offset + limit))
       IN [err |-> "", salvages |-> page, total |-> Len(txIds),
           limit |-> limit, offset |-> offset]

\* what arweave.transactions.getData/get would answer for txId: the payload
\* is found, the store says the transaction does not exist, or the store
\* cannot be reached
StoreLookups(store, txId) ==
  IF txId \in DOMAIN store THEN {"found", "unavailable"}
  ELSE {"TX_NOT_FOUND", "unavailable"}

\* retrieveSalvage asking the store for every identifier
retrieveSalvageAlwaysAsks(store, txId, lookup) ==
  IF lookup = "found"
  THEN [err |-> "", status |-> "found", payload |-> store[txId], asked |-> TRUE]
  ELSE IF lookup = "TX_NOT_FOUND"
       THEN [err |-> "Salvage not found", status |-> "", payload |-> "none", asked |-> TRUE]
  ELSE [err |-> "unavailable", status |-> "", payload |-> "none", asked |-> TRUE]

\* retrieveSalvage(txId): [err, status, payload, asked]; lookup is what the
\* store answers if asked, asked whether getData was called
retrieveSalvage(store, txId, lookup) ==
  IF isDemoId(txId)
  THEN [err |-> "", status |-> "demo", payload |-> "none", asked |-> FALSE]
  ELSE IF lookup = "found"
  THEN [err |-> "", status |-> "found", payload |-> store[txId], asked |-> TRUE]
  ELSE IF lookup = "TX_NOT_FOUND"
       THEN [err |-> "Salvage not found", status |-> "", payload |-> "none", asked |-> TRUE]
  ELSE [err |-> "unavailable", status |-> "", payload |-> "none", asked |-> TRUE]

\* err.message.includes('not found')
includesNotFound(msg) == msg = "Salvage not found"

\* ------------------------------------------------------------ revival.js
\* a path, as the pieces it is put together from; the empty path is <<>>
IdentityPath == <<"IDENTITY.md">>
SoulPath == <<"SOUL.md">>
MemoryPath == <<"MEMORY.md">>
ToolsPath == <<"TOOLS.md">>
ConfigPath == <<"config.json">>
logPath(date) == <<"memory/", date, ".md">>

\* log.date && log.content
logKept(log) == log.date # "" /\ log.content # ""

\* f.path && f.content
fileKept(f) == f.path # <<>> /\ f.content # ""

\* the entries soulToFiles pushes for memory.daily_logs
RECURSIVE logFiles(_)
logFiles(logs) ==
  IF logs = <<>> THEN <<>>
  ELSE (IF logKept(Head(logs))
        THEN <<[path |-> logPath(Head(logs).date), content |-> Head(logs).content]>>
        ELSE <<>>) \o logFiles(Tail(logs))

\* the entries soulToFiles pushes for soul.files
RECURSIVE extraFiles(_)
extraFiles(files) ==
  IF files = <<>> THEN <<>>
  ELSE (IF fileKept(Head(files))
        THEN <<[path |-> Head(files).path, content |-> Head(files).content]>>
        ELSE <<>>) \o extraFiles(Tail(files))

\* soulToFiles(soul): the list of {path, content}
soulToFiles(soul) ==
  (IF soul.identity # "absent"
   THEN <<[path |-> IdentityPath, content |-> soul.identity]>> ELSE <<>>)
  \o (IF soul.personality # "absent"
      THEN <<[path |-> SoulPath, content |-> soul.personality]>> ELSE <<>>)
  \o (IF soul.memory.form = "absent" THEN <<>>
      ELSE IF soul.memory.form = "string"
      THEN <<[path |-> MemoryPath, content |-> soul.memory.text]>>
      ELSE (IF soul.memory.long_term # ""
            THEN <<[path |-> MemoryPath, content |-> soul.memory.long_term]>> ELSE <<>>)
           \o logFiles(soul.memory.daily_logs))
  \o (IF soul.tools # "absent"
      THEN <<[path |-> ToolsPath, content |-> soul.tools]>> ELSE <<>>)
  \o (IF soul.config # "absent"
      THEN <<[path |-> ConfigPath, content |-> soul.config]>> ELSE <<>>)
  \o (IF soul.files.isArray THEN extraFiles(soul.files.items) ELSE <<>>)

\* reviveFromSalvage reporting an envelope without a soul as not found
reviveFromSalvageNotFound(store, txId, format, lookup) ==
  LET data == retrieveSalvage(store, txId, lookup)
  IN IF data.err # ""
     THEN [err |-> data.err, format |-> "", body |-> "none", asked |-> data.asked]
     ELSE IF data.status = "demo"
     THEN [err |-> "", format |-> format, body |-> "demo soul", asked |-> data.asked]
     ELSE IF data.payload # "soul"
     THEN [err |-> "Salvage not found", format |-> "", body |-> "none", asked |-> data.asked]
     ELSE IF format = "files"
     THEN [err |-> "", format |-> "files", body |-> "files", asked |-> data.asked]
     ELSE IF format = "openclaw"
     THEN [err |-> "", format |-> "openclaw", body |-> "workspace", asked |-> data.asked]
     ELSE [err |-> "", format |-> "structured", body |-> "soul", asked |-> data.asked]

\* reviveFromSalvage applying the requested format to the placeholder soul
reviveFromSalvageDemoFormatted(store, txId, format, lookup) ==
  LET data == retrieveSalvage(store, txId, lookup)
  IN IF data.err # ""
     THEN [err |-> data.err, format |-> "", body |-> "none", asked |-> data.asked]
     ELSE IF data.status # "demo" /\ data.payload # "soul"
     THEN [err |-> "Salvage does not contain a valid soul", format |-> "", body |-> "none",
           asked |-> data.asked]
     ELSE IF format = "files"
     THEN [err |-> "", format |-> "files", body |-> "files", asked |-> data.asked]
     ELSE IF format = "openclaw"
     THEN [err |-> "", format |-> "openclaw", body |-> "workspace", asked |-> data.asked]
     ELSE IF data.status = "demo"
     THEN [err |-> "", format |-> format, body |-> "demo soul", asked |-> data.asked]
     ELSE [err |-> "", format |-> "structured", body |-> "soul", asked |-> data.asked]

\* reviveFromSalvage(txId, {format}): [err, format, body, asked]
reviveFromSalvage(store, txId, format, lookup) ==
  LET data == retrieveSalvage(store, txId, lookup)
  IN IF data.err # ""
     THEN [err |-> data.err, format |-> "", body |-> "none", asked |-> data.asked]
     ELSE IF data.status = "demo"
     THEN [err |-> "", format |-> format, body |-> "demo soul", asked |-> data.asked]
     ELSE IF data.payload # "soul"
     THEN [err |-> "Salvage does not contain a valid soul", format |-> "", body |-> "none",
           asked |-> data.asked]
     ELSE IF format = "files"
     THEN [err |-> "", format |-> "files", body |-> "files", asked |-> data.asked]
     ELSE IF format = "openclaw"
     THEN [err |-> "", format |-> "openclaw", body |-> "workspace", asked |-> data.asked]
     ELSE [err |-> "", format |-> "structured", body |-> "soul", asked |-> data.asked]

\* ----------------------------------------------------------- payments.js
\* TIER_PRICES[tier], 0 for a tier without a price
tierPrice(tier) == CASE tier = "pro" -> 5 [] tier = "enterprise" -> 25 [] OTHER -> 0

NoMetadata == [accountId |-> 0, tier |-> ""]

\* createPayment({accountId, currency, tier}): [err, type, sessions]; created
\* says whether the processor created the checkout session
createPayment(e, held, accountId, currency, tier, created) ==
  IF tierPrice(tier) = 0 THEN [err |-> "Unknown tier", type |-> "", sessions |-> held]
  ELSE IF toUpperCase(currency) = "USD"
       THEN IF ~e.stripe THEN [err |-> "Stripe not configured", type |-> "", sessions |-> held]
            ELSE IF ~created THEN [err |-> "processor", type |-> "", sessions |-> held]
            ELSE [err |-> "", type |-> "stripe_checkout",
                  sessions |-> held \cup {[accountId |-> accountId, tier |-> tier]}]
  ELSE IF toUpperCase(currency) \notin e.addresses
       THEN [err |-> "payments not configured", type |-> "", sessions |-> held]
  ELSE [err |-> "", type |-> "crypto", sessions |-> held]

\* what stripe.checkout.sessions.create can answer: only a USD payment with a
\* configured key calls the processor, which creates the session or fails
ProcessorAnswers(e, currency) ==
  IF e.stripe /\ toUpperCase(currency) = "USD" THEN BOOLEAN ELSE {FALSE}

\* verifyPayment({paymentId, txSignature}): [status, db]
verifyPayment(d, paymentId, txSignature) == [status |-> "pending_review", db |-> d]

\* handleStripeWebhook upgrading on every event type
handleStripeWebhookAnyEvent(d, event) ==
  IF event.metadata.accountId # 0 /\ event.metadata.tier # ""
  THEN upgradeTier(d, event.metadata.accountId, event.metadata.tier).db
  ELSE d

\* handleStripeWebhook(event): the account store after the callback
handleStripeWebhook(d, event) ==
  IF event.type = "checkout.session.completed"
  THEN IF event.metadata.accountId # 0 /\ event.metadata.tier # ""
       THEN upgradeTier(d, event.metadata.accountId, event.metadata.tier).db
       ELSE d
  ELSE d


\* --------------------------------------------------------------- inputs
KeyInputs == {NoKey} \cup KeySpace
NameInputs == Names \cup {""}
TypeInputs == {"agent", "robot"}
TxIdInputs == {<<"ar", n>> : n \in 0..MaxSalvages} \cup {<<"demo", Null, 0>>}
FormatInputs == {"structured", "files", "openclaw", "yaml"}
CurrencyInputs == {"", "usd", "SOL"}
TierInputs == {"free", "pro", "enterprise"}
LimitInputs == 0..2
OffsetInputs == 0..2
EventTypes == {"checkout.session.completed", "checkout.session.expired"}
Lookups == {"none", "found", "TX_NOT_FOUND", "unavailable"}
\* the candidate souls given to the validator
SoulInputs == [kind : {"object", "string", "absent"},
               identity : {"absent", "noname", "named"},
               secrets : SUBSET {FORBIDDEN_PATTERNS[i] : i \in DOMAIN FORBIDDEN_PATTERNS},
               bytes : {FreeMaxBytes, HardCapBytes, HardCapBytes + 1}]

\* sequences over S of length at most n
SeqsUpTo(S, n) == UNION {[1..k -> S] : k \in 0..n}

\* entries of memory.daily_logs: dated with content, dated without content,
\* with content and no date
LogEntries ==
  {[date |-> "2026-01-01", content |-> "first"], [date |-> "2026-01-02", content |-> "second"],
   [date |-> "2026-01-03", content |-> ""], [date |-> "", content |-> "undated"]}

\* entries of soul.files: with path and content, with an empty content,
\* without a path
FileEntries ==
  {[path |-> <<"a.txt">>, content |-> "a"], [path |-> <<"b.txt">>, content |-> "b"],
   [path |-> <<"empty.txt">>, content |-> ""], [path |-> <<>>, content |-> "pathless"]}

\* the soul of a retrieved envelope as soulToFiles reads it
MemoryInputs ==
  {[form |-> "absent", text |-> "", long_term |-> "", daily_logs |-> <<>>],
   [form |-> "string", text |-> "memory", long_term |-> "", daily_logs |-> <<>>]}
  \cup [form : {"object"}, text : {""}, long_term : {"", "long term"},
        daily_logs : SeqsUpTo(LogEntries, MaxLogs)]

RevivedSouls ==
  [identity : {"absent", "identity"}, personality : {"absent", "personality"},
   memory : MemoryInputs, tools : {"absent", "tools"}, config : {"absent", "config"},
   files : {[isArray |-> FALSE, items |-> <<>>]}
             \cup [isArray : {TRUE}, items : SeqsUpTo(FileEntries, MaxFiles)]]

\* the accounts of each tier as requireAuth hands them to the salvage
\* handler: without a submission, or with one made today
GateAccounts(t) ==
  [tier : {"free", "pro", "enterprise"}, salvageCount : {0}, lastSalvage : {Null}]
    \cup [tier : {"free", "pro", "enterprise"}, salvageCount : {1}, lastSalvage : {t}]

Envs == [wallet : BOOLEAN, stripe : BOOLEAN, addresses : {{}, {"SOL"}}]

RECURSIVE SumCounts(_, _)
SumCounts(d, ids) ==
  IF ids = {} THEN 0
  ELSE LET id == CHOOSE x \in ids : TRUE
       IN d[id].salvageCount + SumCounts(d, ids \ {id})

\* the identifiers recorded against the accounts
IssuedIds ==
  UNION {{db[a].salvageTxIds[i] : i \in DOMAIN db[a].salvageTxIds} : a \in DOMAIN db}

\* submissions admitted so far and not failed
Admitted == SumCounts(db, DOMAIN db) + BagCardinality(inflight)

\* ---------------------------------------------------------------- state
Init ==
  /\ db = <<>>
  /\ now = [y |-> 1, m |-> 1, d |-> 1]
  /\ env \in Envs
  /\ nextKey = 0
  /\ nextTx = 0
  /\ arweave = (<<"ar", 0>> :> "nosoul")
  /\ inflight = EmptyBag
  /\ sessions = {}
  /\ issuedKeys = <<>>
  /\ resp = [op |-> "none", status |-> 0]

\* the wall clock moves to the next day
Tick ==
  /\ ~(now.y = MaxYear /\ now.m = MonthsPerYear /\ now.d = DaysPerMonth)
  /\ now' = IF now.d < DaysPerMonth THEN [now EXCEPT !.d = @ + 1]
            ELSE IF now.m < MonthsPerYear THEN [now EXCEPT !.m = @ + 1, !.d = 1]
            ELSE [y |-> now.y + 1, m |-> 1, d |-> 1]
  /\ resp' = [op |-> "tick", status |-> 0]
  /\ UNCHANGED <<db, env, nextKey, nextTx, arweave, inflight, sessions, issuedKeys>>

\* POST /api/v1/register
Register(name, type) ==
  /\ IF name = "" \/ type \notin {"agent", "human"}
     THEN /\ resp' = [op |-> "register", status |-> 400]
          /\ UNCHANGED <<db, nextKey, issuedKeys>>
     ELSE IF createAccount(db, name, type, 0, NoKey).err # ""
     THEN /\ resp' = [op |-> "register", status |-> 409, name |-> name]
          /\ db' = createAccount(db, name, type, 0, NoKey).db
          /\ UNCHANGED <<nextKey, issuedKeys>>
     ELSE /\ Cardinality(DOMAIN db) < MaxAccounts
          /\ nextKey < MaxKeys
          /\ LET id == Cardinality(DOMAIN db) + 1
                 apiKey == generateApiKey(nextKey)
                 r == createAccount(db, name, type, id, apiKey)
             IN /\ db' = r.db
                /\ nextKey' = apiKey
                /\ issuedKeys' = issuedKeys @@ (id :> <<apiKey>>)
                /\ resp' = [op |-> "register", status |-> 201, name |-> name,
                            id |-> id, api_key |-> apiKey]
  /\ UNCHANGED <<now, env, nextTx, arweave, inflight, sessions>>

\* GET /api/v1/account
AccountInfo(key) ==
  LET a == authenticate(db, key)
  IN /\ resp' = IF a = NoAccount
                THEN [op |-> "account", status |-> 401]
                ELSE [op |-> "account", status |-> 200, id |-> a.id, name |-> a.name,
                      type |-> a.type, tier |-> a.tier, salvage_count |-> a.salvageCount,
                      total_bytes |-> a.totalBytes, last_salvage |-> a.lastSalvage]
     /\ UNCHANGED <<db, now, env, nextKey, nextTx, arweave, inflight, sessions, issuedKeys>>

\* POST /api/v1/account/rotate-key
RotateKey(key) ==
  LET account == authenticate(db, key)
  IN /\ IF account = NoAccount
        THEN /\ resp' = [op |-> "rotate", status |-> 401]
             /\ UNCHANGED <<db, nextKey, issuedKeys>>
        ELSE /\ nextKey < MaxKeys
             /\ LET r == rotateKey(db, account.id, generateApiKey(nextKey))
                IN /\ db' = r.db
                   /\ nextKey' = r.key
                   /\ issuedKeys' = [issuedKeys EXCEPT ![account.id] = Append(@, r.key)]
                   /\ resp' = [op |-> "rotate", status |-> 200, id |-> account.id,
                               api_key |-> r.key]
     /\ UNCHANGED <<now, env, nextTx, arweave, inflight, sessions>>

\* POST /api/v1/salvage, up to the response or to the await on the permanent store
SalvageRequest(key) ==
  LET account == authenticate(db, key)
  IN /\ IF account = NoAccount
        THEN /\ resp' = [op |-> "salvage", status |-> 401]
             /\ UNCHANGED <<db, inflight>>
        ELSE \E soul \in Souls :
          LET payloadSize == soul.bytes
              limit == salvageGate(account, soul, now)
          IN IF limit = 400
             THEN /\ resp' = [op |-> "salvage", status |-> 400, id |-> account.id,
                              key |-> key, soul |-> soul]
                  /\ UNCHANGED <<db, inflight>>
             ELSE IF limit # 0
             THEN /\ resp' = [op |-> "salvage", status |-> limit, id |-> account.id,
                              bytes |-> payloadSize, key |-> key, soul |-> soul]
                  /\ UNCHANGED <<db, inflight>>
             ELSE /\ Admitted < MaxSalvages
                  /\ IF ~env.wallet
                     THEN LET r == salvageToArweave(db, env.wallet, account.id,
                                                   dataLength(soul), now, NoTx, "none")
                          IN /\ db' = r.db
                             /\ resp' = IF r.err = ""
                                        THEN [op |-> "salvage", status |-> 201,
                                              id |-> account.id, bytes |-> payloadSize,
                                              result |-> r.status, tx_id |-> r.txId,
                                              key |-> key, soul |-> soul]
                                        ELSE [op |-> "salvage", status |-> 500,
                                              id |-> account.id, bytes |-> payloadSize,
                                              error |-> r.err, key |-> key, soul |-> soul]
                             /\ UNCHANGED inflight
                     ELSE /\ inflight' = inflight (+) SetToBag({[id |-> account.id,
                                                                 data |-> dataLength(soul)]})
                          /\ resp' = [op |-> "salvage", status |-> 0,
                                      id |-> account.id, bytes |-> payloadSize,
                                      key |-> key, soul |-> soul]
                          /\ UNCHANGED db
     /\ UNCHANGED <<now, env, nextKey, nextTx, arweave, sessions, issuedKeys>>

\* POST /api/v1/salvage, from the permanent store's answer to the response
SalvagePosted(req, outcome) ==
  /\ BagIn(req, inflight)
  /\ inflight' = inflight (-) SetToBag({req})
  /\ LET txId == <<"ar", nextTx + 1>>
         r == salvageToArweave(db, env.wallet, req.id, req.data, now, txId, outcome)
     IN /\ db' = r.db
        /\ IF outcome = "posted"
           THEN /\ nextTx' = nextTx + 1
                /\ arweave' = arweave @@ (txId :> "soul")
           ELSE UNCHANGED <<nextTx, arweave>>
        /\ resp' = IF r.err = ""
                   THEN [op |-> "posted", status |-> 201, id |-> req.id,
                         outcome |-> outcome, result |-> r.status, tx_id |-> r.txId]
                   ELSE [op |-> "posted", status |-> 500, id |-> req.id,
                         outcome |-> outcome, error |-> r.err]
  /\ UNCHANGED <<now, env, nextKey, sessions, issuedKeys>>

\* GET /api/v1/salvage/:txId
Retrieve(txId, lookup) ==
  /\ lookup \in StoreLookups(arweave, txId)
  /\ LET r == retrieveSalvage(arweave, txId, lookup)
     IN resp' = [op |-> "retrieve",
                 status |-> IF r.err = "" THEN 200
                            ELSE IF includesNotFound(r.err) THEN 404 ELSE 500,
                 tx_id |-> txId, lookup |-> IF r.asked THEN lookup ELSE "none",
                 body |-> r.status]
  /\ UNCHANGED <<db, now, env, nextKey, nextTx, arweave, inflight, sessions, issuedKeys>>

\* POST /api/v1/revive
Revive(txId, format, lookup) ==
  /\ IF txId = NoTx
     THEN /\ lookup = "none"
          /\ resp' = [op |-> "revive", status |-> 400]
     ELSE /\ lookup \in StoreLookups(arweave, txId)
          /\ LET r == reviveFromSalvage(arweave, txId, format, lookup)
             IN resp' = [op |-> "revive", status |-> IF r.err = "" THEN 200 ELSE 500,
                         tx_id |-> txId, lookup |-> IF r.asked THEN lookup ELSE "none",
                         error |-> r.err, requested |-> format,
                         format |-> r.format, body |-> r.body]
  /\ UNCHANGED <<db, now, env, nextKey, nextTx, arweave, inflight, sessions, issuedKeys>>

\* GET /api/v1/salvages
List(key) ==
  LET account == authenticate(db, key)
  IN /\ IF account = NoAccount
        THEN resp' = [op |-> "list", status |-> 401]
        ELSE \E limit \in LimitInputs, offset \in OffsetInputs :
          LET r == listSalvages(db, account.id, limit, offset)
          IN resp' = [op |-> "list", status |-> IF r.err = "" THEN 200 ELSE 500,
                      id |-> account.id, salvages |-> r.salvages,
                      total |-> r.total, limit |-> r.limit, offset |-> r.offset]
     /\ UNCHANGED <<db, now, env, nextKey, nextTx, arweave, inflight, sessions, issuedKeys>>

\* POST /api/v1/payments/create
CreatePayment(key) ==
  LET account == authenticate(db, key)
  IN /\ IF account = NoAccount
        THEN /\ resp' = [op |-> "createPayment", status |-> 401]
             /\ UNCHANGED sessions
        ELSE \E currency \in CurrencyInputs, tier \in TierInputs :
          IF currency = "" \/ tier \notin {"pro", "enterprise"}
          THEN /\ resp' = [op |-> "createPayment", status |-> 400]
               /\ UNCHANGED sessions
          ELSE \E created \in ProcessorAnswers(env, currency) :
            LET r == createPayment(env, sessions, account.id, currency, tier, created)
            IN /\ Cardinality(r.sessions) <= MaxSessions
               /\ sessions' = r.sessions
               /\ resp' = [op |-> "createPayment",
                           status |-> IF r.err = "" THEN 200 ELSE 500, type |-> r.type]
     /\ UNCHANGED <<db, now, env, nextKey, nextTx, arweave, inflight, issuedKeys>>

\* POST /api/v1/payments/verify; complete says whether payment_id and
\* tx_signature are both given
VerifyPayment(key) ==
  LET account == authenticate(db, key)
  IN /\ IF account = NoAccount
        THEN /\ resp' = [op |-> "verifyPayment", status |-> 401]
             /\ UNCHANGED db
        ELSE \E complete \in BOOLEAN :
          IF ~complete
          THEN /\ resp' = [op |-> "verifyPayment", status |-> 400]
               /\ UNCHANGED db
          ELSE LET r == verifyPayment(db, "pay", "sig")
               IN /\ db' = r.db
                  /\ resp' = [op |-> "verifyPayment", status |-> 200, result |-> r.status]
     /\ UNCHANGED <<now, env, nextKey, nextTx, arweave, inflight, sessions, issuedKeys>>

\* the processor's callback, for a checkout session created by createPayment
\* or for one that carries no correlation metadata
StripeWebhook(type, metadata) ==
  /\ env.stripe
  /\ metadata \in sessions \cup {NoMetadata}
  /\ db' = handleStripeWebhook(db, [type |-> type, metadata |-> metadata])
  /\ resp' = [op |-> "webhook", status |-> 0, type |-> type,
              correlated |-> metadata # NoMetadata]
  /\ UNCHANGED <<now, env, nextKey, nextTx, arweave, inflight, sessions, issuedKeys>>

\* POST /api/v1/salvage from the validation to the tier limits, for a soul
\* and an account as authenticated
Validate(soul, account) ==
  /\ resp' = [op |-> "validate", soul |-> soul, tier |-> account.tier,
              count |-> account.salvageCount,
              valid |-> validateSoulPayload(soul).valid,
              errors |-> validateSoulPayload(soul).errors,
              status |-> salvageGate(account, soul, now)]
  /\ UNCHANGED <<db, now, env, nextKey, nextTx, arweave, inflight, sessions, issuedKeys>>

\* reviveFromSalvage, case 'files', for the soul of a retrieved envelope
Project(soul) ==
  /\ resp' = [op |-> "files", soul |-> soul, files |-> soulToFiles(soul)]
  /\ UNCHANGED <<db, now, env, nextKey, nextTx, arweave, inflight, sessions, issuedKeys>>

\* --------------------------------------------------------- specifications
\* accounts and credentials: registration, account info, key rotation,
\* listing and submission
Next ==
  \/ \E name \in NameInputs, type \in TypeInputs : Register(name, type)
  \/ \E key \in KeyInputs : AccountInfo(key)
  \/ \E key \in KeyInputs : RotateKey(key)
  \/ \E key \in KeyInputs : List(key)
  \/ \E key \in KeyInputs : SalvageRequest(key)
  \/ \E req \in BagToSet(inflight), outcome \in StoreOutcomes : SalvagePosted(req, outcome)

\* Next reads no payment configuration
AccountInit == Init /\ ~env.stripe /\ env.addresses = {}

Spec == AccountInit /\ [][Next]_vars

\* billing: every request that writes, and the processor's callback, within
\* one day, for accounts named from BillingNames
BillingNames == {"", "neo", "trinity"}

BillingNext ==
  \/ \E name \in BillingNames, type \in TypeInputs : Register(name, type)
  \/ \E key \in KeyInputs : RotateKey(key)
  \/ \E key \in KeyInputs : SalvageRequest(key)
  \/ \E key \in KeyInputs : CreatePayment(key)
  \/ \E key \in KeyInputs : VerifyPayment(key)
  \/ \E type \in EventTypes, metadata \in sessions \cup {NoMetadata} :
       StripeWebhook(type, metadata)

\* the deployment that takes payments, without a wallet: a submission is
\* archived in demo mode, within its request, and none is ever in flight
BillingInit == Init /\ env = [wallet |-> FALSE, stripe |-> TRUE, addresses |-> {"SOL"}]

BillingSpec == BillingInit /\ [][BillingNext]_vars

\* the quota: one account's submissions as the days pass
QuotaNames == {"", "neo"}

QuotaNext ==
  \/ Tick
  \/ \E name \in QuotaNames, type \in TypeInputs : Register(name, type)
  \/ \E key \in KeyInputs : SalvageRequest(key)
  \/ \E req \in BagToSet(inflight), outcome \in StoreOutcomes : SalvagePosted(req, outcome)

QuotaSpec == AccountInit /\ [][QuotaNext]_vars

\* reading: one account's submissions as the days pass, and the requests that
\* read archives
ReadNext ==
  \/ Tick
  \/ \E name \in QuotaNames, type \in TypeInputs : Register(name, type)
  \/ \E key \in KeyInputs : SalvageRequest(key)
  \/ \E req \in BagToSet(inflight), outcome \in StoreOutcomes : SalvagePosted(req, outcome)
  \/ \E txId \in TxIdInputs \cup IssuedIds, lookup \in Lookups :
       Retrieve(txId, lookup)
  \/ \E txId \in TxIdInputs \cup IssuedIds \cup {NoTx}, format \in FormatInputs,
          lookup \in Lookups :
       Revive(txId, format, lookup)
  \/ \E key \in KeyInputs : List(key)

ReadSpec == AccountInit /\ [][ReadNext]_vars

\* revival: one account's submissions within one day, and the requests that
\* retrieve and revive archives
RevivalNext ==
  \/ \E name \in QuotaNames, type \in TypeInputs : Register(name, type)
  \/ \E key \in KeyInputs : SalvageRequest(key)
  \/ \E req \in BagToSet(inflight), outcome \in StoreOutcomes : SalvagePosted(req, outcome)
  \/ \E txId \in TxIdInputs \cup IssuedIds, lookup \in Lookups :
       Retrieve(txId, lookup)
  \/ \E txId \in TxIdInputs \cup IssuedIds \cup {NoTx}, format \in FormatInputs,
          lookup \in Lookups :
       Revive(txId, format, lookup)

RevivalSpec == AccountInit /\ [][RevivalNext]_vars

\* the account store: every request that writes it and the processor's
\* callback, with submissions awaiting the permanent store in between
StoreNames == {"neo", "trinity"}

StoreNext ==
  \/ \E name \in StoreNames : Register(name, "agent")
  \/ \E key \in KeyInputs : RotateKey(key)
  \/ \E key \in KeyInputs : SalvageRequest(key)
  \/ \E req \in BagToSet(inflight), outcome \in StoreOutcomes : SalvagePosted(req, outcome)
  \/ \E key \in KeyInputs : CreatePayment(key)
  \/ \E type \in EventTypes, metadata \in sessions \cup {NoMetadata} :
       StripeWebhook(type, metadata)

\* the deployment with a wallet and a payment processor
StoreInit == Init /\ env = [wallet |-> TRUE, stripe |-> TRUE, addresses |-> {}]

StoreSpec == StoreInit /\ [][StoreNext]_vars

\* the validator: every candidate soul, for an account of every tier; the
\* validator keeps no state, so a behaviour validates one candidate
ValidatorNext ==
  /\ resp.op = "none"
  /\ \E soul \in SoulInputs, account \in GateAccounts(now) : Validate(soul, account)

ValidatorSpec == AccountInit /\ [][ValidatorNext]_vars

\* the files projection: every soul an envelope can hold; the projection
\* keeps no state, so a behaviour projects one soul
ProjectionNext ==
  /\ resp.op = "none"
  /\ \E soul \in RevivedSouls : Project(soul)

ProjectionSpec == AccountInit /\ [][ProjectionNext]_vars

\* ----------------------------------------------------------------- claims
\* the account a salvage response answers, as the handler saw it
Asked == db[resp'.id]

\* a salvage step that reached the tier limits (authenticated, valid soul)
QuotaStep == resp'.op = "salvage" /\ resp'.status \notin {401, 400}

\* the calendar month and year of two timestamps are the same
SameMonth(a, b) == a.m = b.m /\ a.y = b.y

\* C1: a free-tier submission is admitted (not rate-limited) if the account
\* has never submitted or the calendar month or year of its last recorded
\* submission differs from the current one, and rejected as rate-limited (429)
\* otherwise; the day of the month plays no part.
C1_FreeQuotaByCalendarMonth ==
  [][(QuotaStep /\ Asked.tier = "free") =>
       (resp'.status # 429 <=>
          (Asked.salvageCount = 0 \/ Asked.lastSalvage.m # now.m
             \/ Asked.lastSalvage.y # now.y))]_vars

\* C1 witness: a free account that submitted on the last day of a month has
\* its next submission recorded on the first day of the next month.
C1_Witness ==
  /\ resp.op = "salvage" /\ resp.status = 201
  /\ db[resp.id].tier = "free"
  /\ Len(db[resp.id].salvageTxIds) = 2
  /\ db[resp.id].salvageTxIds[1][2] = [y |-> 1, m |-> 1, d |-> DaysPerMonth]
  /\ db[resp.id].salvageTxIds[2][2] = [y |-> 1, m |-> 2, d |-> 1]

\* C2: for a free account at most one submission is recorded per calendar
\* month: a submission is recorded against a free account only if none was
\* recorded in the current calendar month.
C2_OneRecordPerMonth ==
  [][\A a \in DOMAIN db :
       (db[a].tier = "free" /\ db'[a].salvageCount > db[a].salvageCount) =>
         (db[a].lastSalvage = Null \/ ~SameMonth(db[a].lastSalvage, now))]_vars

\* C3: a submission by a pro or enterprise account is never rejected as
\* rate-limited: a 429 is only ever sent to a free account.
C3_PaidNeverRateLimited ==
  (resp.op = "salvage" /\ resp.status = 429) => db[resp.id].tier = "free"

\* C3 witness: a pro account is admitted a second time in the month of its
\* first submission.
C3_Witness ==
  /\ resp.op = "salvage" /\ resp.status = 201
  /\ db[resp.id].tier = "pro"
  /\ db[resp.id].salvageCount = 2
  /\ db[resp.id].salvageTxIds[1][2] = now

\* C4: a free-tier submission is admitted only if the month condition and the
\* size condition (at most 1,048,576 bytes) both hold; a failed month
\* condition is reported as 429 whatever the size, a failed size condition
\* alone as 413.
C4_MonthCheckFirst ==
  [][(QuotaStep /\ Asked.tier = "free") =>
       LET monthOk == Asked.salvageCount = 0 \/ ~SameMonth(Asked.lastSalvage, now)
           sizeOk == resp'.bytes <= 1048576
       IN /\ resp'.status \in {0, 201} <=> (monthOk /\ sizeOk)
          /\ ~monthOk => resp'.status = 429
          /\ (monthOk /\ ~sizeOk) => resp'.status = 413]_vars

\* C4 witness: an over-quota free account sends a soul above the size ceiling
\* and is told 429.
C4_Witness ==
  /\ resp.op = "salvage" /\ resp.status = 429
  /\ resp.bytes > 1048576
  /\ db[resp.id].tier = "free"

\* the level of a tier in the order free < pro < enterprise
tierRank(t) == CASE t = "free" -> 0 [] t = "pro" -> 1 [] t = "enterprise" -> 2

\* C5: an account's tier never moves to a lower level in the order
\* free < pro < enterprise.
C5_TierNeverLowered ==
  [][\A a \in DOMAIN db : tierRank(db'[a].tier) >= tierRank(db[a].tier)]_vars

\* C6: an account's tier changes only in a step of the processor callback
\* that reports a completed checkout carrying (account id, tier) metadata;
\* verifyPayment leaves the account store as it is and answers pending review.
C6_TierChangesOnlyByCallback ==
  [][/\ \A a \in DOMAIN db :
          db'[a].tier # db[a].tier =>
            /\ resp'.op = "webhook"
            /\ resp'.type = "checkout.session.completed"
            /\ resp'.correlated
     /\ resp'.op = "verifyPayment" =>
          /\ db' = db
          /\ resp'.status = 200 => resp'.result = "pending_review"]_vars

\* C6 witness: verifyPayment answers pending review in a store where a
\* callback has upgraded an account.
C6_Witness ==
  /\ resp.op = "verifyPayment" /\ resp.status = 200
  /\ \E a \in DOMAIN db : db[a].tier # "free"

\* C7: no two accounts have names equal ignoring case; a registration whose
\* name equals an existing account's name ignoring case is answered 409 and
\* leaves the account store and the issued credentials unchanged, and only
\* such a registration is answered 409.
C7_UniqueNames ==
  [][/\ \A a, b \in DOMAIN db' :
          a # b => toLowerCase(db'[a].name) # toLowerCase(db'[b].name)
     /\ (resp'.op = "register" /\ resp'.status # 400) =>
          LET dup == \E a \in DOMAIN db :
                       toLowerCase(db[a].name) = toLowerCase(resp'.name)
          IN /\ dup <=> resp'.status = 409
             /\ dup => (db' = db /\ issuedKeys' = issuedKeys /\ nextKey' = nextKey)]_vars

\* C7 witness: "Neo" is refused while "neo" is registered.
C7_Witness ==
  /\ resp.op = "register" /\ resp.status = 409 /\ resp.name = "Neo"
  /\ \E a \in DOMAIN db : db[a].name = "neo"

\* C8: for every account, each credential issued before the latest one
\* authenticates as no account, the latest one authenticates as the account,
\* and exactly one credential authenticates as the account.
C8_OnlyLatestKeyAuthenticates ==
  \A a \in DOMAIN db :
    LET keys == issuedKeys[a]
    IN /\ \A i \in 1..(Len(keys) - 1) : authenticate(db, keys[i]) = NoAccount
       /\ authenticate(db, keys[Len(keys)]) = db[a]
       /\ Cardinality({k \in KeyInputs : authenticate(db, k).id = a}) = 1

\* C8 witness: an account has rotated its key.
C8_Witness ==
  /\ resp.op = "rotate" /\ resp.status = 200
  /\ Len(issuedKeys[resp.id]) = 2
  /\ authenticate(db, issuedKeys[resp.id][1]) = NoAccount

\* C9: a retrieval or revival whose identifier the permanent store reports
\* as not existing is answered 404.
C9_UnknownIdIsNotFound ==
  (resp.op \in {"retrieve", "revive"} /\ resp.status # 400
     /\ resp.lookup = "TX_NOT_FOUND") => resp.status = 404

\* the page of ids newest first: item i is the i-th most recent after offset
NewestFirst(ids, limit, offset) ==
  LET left == IF Len(ids) > offset THEN Len(ids) - offset ELSE 0
      n == IF limit < left THEN limit ELSE left
  IN [i \in 1..n |-> ids[Len(ids) - offset - i + 1]]

\* C10: a listing returns the recorded identifiers newest first: the page at
\* offset 0 starts with the most recent one, later pages continue towards the
\* oldest, and total is the number of recorded identifiers.
C10_ListNewestFirst ==
  (resp.op = "list" /\ resp.status = 200) =>
    /\ resp.total = Len(db[resp.id].salvageTxIds)
    /\ resp.salvages = NewestFirst(db[resp.id].salvageTxIds, resp.limit, resp.offset)

\* C11: a submission the permanent store did not accept (creation, signing
\* or posting throws, or the answer is not 200) is answered with the one
\* archive-failed error and leaves the account store as it was; an identifier
\* of the permanent store is on an account's list only if the store holds it.
C11_ArchiveFailureLeavesAccount ==
  [][/\ (resp'.op = "posted" /\ resp'.outcome # "posted") =>
          /\ resp'.status = 500
          /\ resp'.error = "Arweave upload failed"
          /\ db' = db
     /\ \A a \in DOMAIN db' : \A i \in 1..Len(db'[a].salvageTxIds) :
          ~isDemoId(db'[a].salvageTxIds[i]) =>
            db'[a].salvageTxIds[i] \in DOMAIN arweave']_vars

\* C11 witness: the store answers a status other than 200 to an account that
\* has one accepted submission on record.
C11_Witness ==
  /\ resp.op = "posted" /\ resp.status = 500 /\ resp.outcome = "status not 200"
  /\ db[resp.id].salvageCount = 1
  /\ db[resp.id].salvageTxIds[1] \in DOMAIN arweave

\* C12: an admitted submission made while the permanent store is not
\* configured or cannot be reached succeeds in degraded mode: the answer is
\* 201 with status demo and a demo- identifier, and the account's count,
\* bytes, last-submission time and identifier list are updated.
C12_DegradedWhenUnreachable ==
  [][((resp'.op = "salvage" /\ resp'.status \in {201, 500} /\ ~env.wallet)
        \/ (resp'.op = "posted" /\ resp'.outcome = "unreachable")) =>
       /\ resp'.status = 201
       /\ resp'.result = "demo"
       /\ isDemoId(resp'.tx_id)
       /\ db'[resp'.id].salvageCount = db[resp'.id].salvageCount + 1
       /\ db'[resp'.id].totalBytes > db[resp'.id].totalBytes
       /\ db'[resp'.id].lastSalvage = now
       /\ db'[resp'.id].salvageTxIds = Append(db[resp'.id].salvageTxIds, resp'.tx_id)]_vars

\* C13: no update of the account store is lost. A step that answers a
\* submission with 201 leaves the store as it was just before the step but
\* for that account's count (one more), bytes, last-submission time and
\* identifier list (the new identifier appended); a key rotation changes the
\* account's hash alone, a callback at most tiers, a registration adds one
\* account, and every other step leaves the store as it was.
C13_NoLostUpdate ==
  [][IF resp'.op \in {"salvage", "posted"} /\ resp'.status = 201
     THEN /\ DOMAIN db' = DOMAIN db
          /\ \A b \in DOMAIN db \ {resp'.id} : db'[b] = db[b]
          /\ db'[resp'.id].salvageCount = db[resp'.id].salvageCount + 1
          /\ db'[resp'.id].totalBytes > db[resp'.id].totalBytes
          /\ db'[resp'.id].lastSalvage = now
          /\ db'[resp'.id].salvageTxIds = Append(db[resp'.id].salvageTxIds, resp'.tx_id)
          /\ [db'[resp'.id] EXCEPT !.salvageCount = 0, !.totalBytes = 0,
                                   !.lastSalvage = Null, !.salvageTxIds = <<>>]
              = [db[resp'.id] EXCEPT !.salvageCount = 0, !.totalBytes = 0,
                                    !.lastSalvage = Null, !.salvageTxIds = <<>>]
     ELSE IF resp'.op = "rotate" /\ resp'.status = 200
     THEN db' = [db EXCEPT ![resp'.id].apiKeyHash = hashKey(resp'.api_key)]
     ELSE IF resp'.op = "webhook"
     THEN /\ DOMAIN db' = DOMAIN db
          /\ \A a \in DOMAIN db : [db'[a] EXCEPT !.tier = db[a].tier] = db[a]
     ELSE IF resp'.op = "register" /\ resp'.status = 201
     THEN /\ DOMAIN db' = DOMAIN db \cup {resp'.id}
          /\ resp'.id \notin DOMAIN db
          /\ \A a \in DOMAIN db : db'[a] = db[a]
     ELSE db' = db]_vars

\* C13 witness: a submission is recorded for an account whose key was
\* rotated and whose tier was raised while it awaited the permanent store,
\* next to another account with a submission on record.
C13_Witness ==
  /\ resp.op = "posted" /\ resp.status = 201
  /\ db[resp.id].tier = "pro"
  /\ Len(issuedKeys[resp.id]) = 2
  /\ db[resp.id].salvageCount = 1
  /\ \E b \in DOMAIN db \ {resp.id} : db[b].salvageCount = 1

\* a reason that mentions identity.name: it names identity.name, or the
\* identity object and its name field
mentionsIdentityName(msg) ==
  \/ \E i \in DOMAIN msg : msg[i] = "identity.name"
  \/ /\ \E i \in DOMAIN msg : msg[i] = "\"identity\""
     /\ \E i \in DOMAIN msg : msg[i] = "name:"

\* C14: every candidate without identity.name (no identity, an identity
\* without a name, or an input that is not an object) is rejected with a
\* reason that mentions identity.name.
C14_MissingNameIsNamed ==
  (resp.op = "validate" /\ (resp.soul.kind # "object" \/ resp.soul.identity # "named")) =>
    /\ ~resp.valid
    /\ \E i \in DOMAIN resp.errors : mentionsIdentityName(resp.errors[i])

\* the secret warnings among the reasons
secretWarnings(errors) == Cardinality({i \in DOMAIN errors : errors[i] = MsgSecret})

\* C15: every candidate whose serialized form matches at least one secret
\* pattern is rejected with exactly one secret warning, whatever the patterns
\* matched; a candidate matching none gets no secret warning.
C15_OneSecretWarning ==
  resp.op = "validate" =>
    IF resp.soul.secrets # {}
    THEN ~resp.valid /\ secretWarnings(resp.errors) = 1
    ELSE secretWarnings(resp.errors) = 0

\* C15 amended: the same for every candidate that is an object; a candidate
\* that is not an object is rejected by the object check alone.
C15_OneSecretWarningForObjects ==
  resp.op = "validate" =>
    IF resp.soul.kind # "object"
    THEN ~resp.valid /\ resp.errors = <<MsgNotObject>>
    ELSE IF resp.soul.secrets # {}
    THEN ~resp.valid /\ secretWarnings(resp.errors) = 1
    ELSE secretWarnings(resp.errors) = 0

\* C15 witness: an object with a name whose serialized form matches the
\* first and the last pattern of the list.
C15_Witness ==
  /\ resp.op = "validate" /\ resp.soul.kind = "object" /\ resp.soul.identity = "named"
  /\ resp.soul.secrets = {"sk-", "password"}
  /\ resp.errors = <<MsgSecret>>

RECURSIVE datedLogFiles(_)
datedLogFiles(logs) ==
  IF logs = <<>> THEN <<>>
  ELSE (IF Head(logs).date # ""
        THEN <<[path |-> <<"memory/", Head(logs).date, ".md">>, content |-> Head(logs).content]>>
        ELSE <<>>) \o datedLogFiles(Tail(logs))

\* the caller's extra files, every entry that has a path, as given
RECURSIVE givenFiles(_)
givenFiles(files) ==
  IF files = <<>> THEN <<>>
  ELSE (IF Head(files).path # <<>> THEN <<Head(files)>> ELSE <<>>) \o givenFiles(Tail(files))

\* C17: the files projection is, in this order, IDENTITY.md for identity,
\* SOUL.md for personality, MEMORY.md for the long-term memory, one
\* memory/<date>.md per dated log entry in log order, TOOLS.md for tools,
\* config.json for config, then the caller's extra files in their order and
\* verbatim; an absent field contributes nothing.
C17_FilesInFixedOrder ==
  resp.op = "files" =>
    resp.files =
      (IF resp.soul.identity # "absent"
       THEN <<[path |-> <<"IDENTITY.md">>, content |-> resp.soul.identity]>> ELSE <<>>)
      \o (IF resp.soul.personality # "absent"
          THEN <<[path |-> <<"SOUL.md">>, content |-> resp.soul.personality]>> ELSE <<>>)
      \o (IF resp.soul.memory.form = "string"
          THEN <<[path |-> <<"MEMORY.md">>, content |-> resp.soul.memory.text]>>
          ELSE IF resp.soul.memory.form = "object" /\ resp.soul.memory.long_term # ""
          THEN <<[path |-> <<"MEMORY.md">>, content |-> resp.soul.memory.long_term]>>
          ELSE <<>>)
      \o datedLogFiles(resp.soul.memory.daily_logs)
      \o (IF resp.soul.tools # "absent"
          THEN <<[path |-> <<"TOOLS.md">>, content |-> resp.soul.tools]>> ELSE <<>>)
      \o (IF resp.soul.config # "absent"
          THEN <<[path |-> <<"config.json">>, content |-> resp.soul.config]>> ELSE <<>>)
      \o givenFiles(resp.soul.files.items)

\* C18: a retrieval or revival of an identifier with the demo- prefix never
\* asks the permanent store: the retrieval answers 200 with status demo, the
\* revival answers 200 with the placeholder soul.
C18_DemoIdNoLookup ==
  (resp.op \in {"retrieve", "revive"} /\ resp.status # 400 /\ isDemoId(resp.tx_id)) =>
    /\ resp.lookup = "none"
    /\ resp.status = 200
    /\ resp.op = "retrieve" => resp.body = "demo"
    /\ resp.op = "revive" => resp.body = "demo soul"

\* C18 witness: an identifier issued in demo mode and recorded against an
\* account is revived.
C18_Witness ==
  /\ resp.op = "revive" /\ resp.status = 200
  /\ resp.tx_id \in IssuedIds
  /\ isDemoId(resp.tx_id)
  /\ resp.body = "demo soul"

\* C19: a revival whose identifier resolves to an envelope without a soul
\* fails with the invalid-soul error, and no revival of an identifier the
\* store does not hold is answered with that error.
C19_InvalidSoulIsDistinct ==
  (resp.op = "revive" /\ resp.status # 400) =>
    /\ (resp.lookup = "found" /\ arweave[resp.tx_id] # "soul") =>
          /\ resp.status = 500
          /\ resp.error = "Salvage does not contain a valid soul"
          /\ ~includesNotFound(resp.error)
    /\ resp.lookup = "TX_NOT_FOUND" =>
          /\ includesNotFound(resp.error)
          /\ resp.error # "Salvage does not contain a valid soul"

\* C19 witness: the transaction the store holds without a soul is revived.
C19_Witness ==
  /\ resp.op = "revive" /\ resp.status = 500 /\ resp.lookup = "found"
  /\ arweave[resp.tx_id] = "nosoul"
  /\ resp.error = "Salvage does not contain a valid soul"

\* the fields of a stored account
AccountFields ==
  {"id", "name", "type", "tier", "apiKeyHash", "salvageCount", "totalBytes",
   "lastSalvage", "salvageTxIds"}

\* C20: the account store holds the hash of each account's latest credential
\* and no field with the credential itself; a response carries a credential
\* only if it answers a registration or a key rotation, the credential is
\* then the one just generated, returned in no earlier response, and no
\* other step returns or issues one.
C20_HashOnlyStored ==
  [][/\ \A a \in DOMAIN db' :
          /\ DOMAIN db'[a] = AccountFields
          /\ db'[a].apiKeyHash = hashKey(issuedKeys'[a][Len(issuedKeys'[a])])
     /\ IF "api_key" \in DOMAIN resp'
        THEN /\ resp'.op \in {"register", "rotate"}
             /\ nextKey' = resp'.api_key /\ nextKey' > nextKey
             /\ \A a \in DOMAIN issuedKeys : \A i \in DOMAIN issuedKeys[a] :
                  issuedKeys[a][i] # resp'.api_key
             /\ issuedKeys'[resp'.id][Len(issuedKeys'[resp'.id])] = resp'.api_key
        ELSE /\ issuedKeys' = issuedKeys
             /\ nextKey' = nextKey
             /\ \A a \in DOMAIN db : db'[a].apiKeyHash = db[a].apiKeyHash]_vars

\* C20 witness: the account info of an account that has rotated its key is
\* served.
C20_Witness ==
  /\ resp.op = "account" /\ resp.status = 200
  /\ Len(issuedKeys[resp.id]) = 2
  /\ db[resp.id].apiKeyHash = hashKey(issuedKeys[resp.id][2])

\* C21: the bookkeeping of the account store. In every state each account's
\* submission count is the length of its identifier list; a step that records
\* a submission raises that account's count by exactly one and appends
\* exactly one identifier at the end of its list; no step lowers a count or a
\* bytes total, or removes or reorders a listed identifier; a registration
\* adds an account with count 0, bytes 0, an empty list, no last-submission
\* time and the free tier.
C21_CountIsListLength ==
  [][/\ \A a \in DOMAIN db : db[a].salvageCount = Len(db[a].salvageTxIds)
     /\ \A a \in DOMAIN db' : db'[a].salvageCount = Len(db'[a].salvageTxIds)
     /\ \A a \in DOMAIN db :
          /\ a \in DOMAIN db'
          /\ db'[a].salvageCount >= db[a].salvageCount
          /\ db'[a].totalBytes >= db[a].totalBytes
          /\ SubSeq(db'[a].salvageTxIds, 1, Len(db[a].salvageTxIds)) = db[a].salvageTxIds
     /\ (resp'.op \in {"salvage", "posted"} /\ resp'.status = 201) =>
          /\ db'[resp'.id].salvageCount = db[resp'.id].salvageCount + 1
          /\ db'[resp'.id].salvageTxIds = Append(db[resp'.id].salvageTxIds, resp'.tx_id)
     /\ (resp'.op = "register" /\ resp'.status = 201) =>
          /\ resp'.id \notin DOMAIN db
          /\ db'[resp'.id].salvageCount = 0
          /\ db'[resp'.id].totalBytes = 0
          /\ db'[resp'.id].salvageTxIds = <<>>
          /\ db'[resp'.id].lastSalvage = Null
          /\ db'[resp'.id].tier = "free"]_vars

\* C21 witness: a second submission is recorded for an account, next to an
\* account registered and still without one.
C21_Witness ==
  /\ resp.op \in {"salvage", "posted"} /\ resp.status = 201
  /\ db[resp.id].salvageCount = 2
  /\ Len(db[resp.id].salvageTxIds) = 2
  /\ db[resp.id].totalBytes > 0
  /\ \E b \in DOMAIN db : db[b].salvageCount = 0 /\ db[b].salvageTxIds = <<>>

\* C22: the order of the write path. A step starts a storage submission, or
\* records one, only for a request that authenticated, whose document then
\* passed the validator and whose account then passed the tier limits; the
\* store's answer is recorded only for a request that was awaiting it. A
\* request rejected with 401, 400, 429 or 413 starts no submission and
\* leaves the account store and the permanent store as they were. An invalid
\* document is answered 400 whatever the account's quota.
C22_WritePathInOrder ==
  [][/\ (resp'.op # "posted" /\ (inflight' # inflight \/ arweave' # arweave
            \/ \E a \in DOMAIN db : db'[a].salvageTxIds # db[a].salvageTxIds))
          => (resp'.op = "salvage" /\ resp'.status \in {0, 201})
     /\ resp'.op = "posted" =>
          \E req \in BagToSet(inflight) :
            /\ req.id = resp'.id
            /\ inflight' = inflight (-) SetToBag({req})
     /\ (resp'.op = "salvage" /\ resp'.status \in {401, 400, 429, 413}) =>
          /\ db' = db /\ inflight' = inflight
          /\ arweave' = arweave /\ nextTx' = nextTx
     /\ (resp'.op = "salvage" /\ resp'.status = 401) => "id" \notin DOMAIN resp'
     /\ (resp'.op = "salvage" /\ resp'.status # 401) =>
          LET account == authenticate(db, resp'.key)
          IN /\ account # NoAccount
             /\ account.id = resp'.id
             /\ IF ~validateSoulPayload(resp'.soul).valid
                THEN resp'.status = 400
                ELSE IF tierLimit(account, resp'.soul.bytes, now) # 0
                THEN resp'.status = tierLimit(account, resp'.soul.bytes, now)
                ELSE resp'.status \in {0, 201, 500}]_vars

\* C22 witness: a free account with a submission on record this month sends
\* an invalid document and is answered 400.
C22_Witness ==
  /\ resp.op = "salvage" /\ resp.status = 400
  /\ ~validateSoulPayload(resp.soul).valid
  /\ db[resp.id].tier = "free"
  /\ db[resp.id].salvageCount >= 1
  /\ tierLimit(db[resp.id], resp.soul.bytes, now) = 429

\* C23: the format of a revival. For an identifier that resolves to an
\* envelope with a soul the answer is 200: format files answers the files
\* projection, format openclaw the workspace (the files projection with the
\* layout map and the bootstrap checklist), and format structured or any
\* other format answers the soul itself, labelled structured. For an
\* identifier with the demo- prefix the answer is the placeholder soul for
\* every requested format, labelled with the requested format.
C23_FormatSelectsProjection ==
  (resp.op = "revive" /\ resp.status # 400) =>
    /\ (resp.lookup = "found" /\ arweave[resp.tx_id] = "soul") =>
          /\ resp.status = 200
          /\ resp.requested = "files" => (resp.body = "files" /\ resp.format = "files")
          /\ resp.requested = "openclaw" =>
                (resp.body = "workspace" /\ resp.format = "openclaw")
          /\ resp.requested \notin {"files", "openclaw"} =>
                (resp.body = "soul" /\ resp.format = "structured")
    /\ isDemoId(resp.tx_id) =>
          /\ resp.status = 200
          /\ resp.body = "demo soul"
          /\ resp.format = resp.requested

\* C23 witness: an archive the service posted is revived as a workspace.
C23_Witness ==
  /\ resp.op = "revive" /\ resp.status = 200
  /\ resp.tx_id \in IssuedIds /\ ~isDemoId(resp.tx_id)
  /\ resp.lookup = "found"
  /\ resp.requested = "openclaw"
  /\ resp.body = "workspace"

====
